---- MODULE Spec2Model ----
(***************************************************************************)
(* Model of llm_qus_analyzer/individual/conceptually.py: the verdict       *)
(* parser CSVerdictParserModel.__parser, the pass-through methods          *)
(* analyze_single / analyze_list, and ConceptuallySoundAnalyzer's          *)
(* __not_violated / run.                                                   *)
(*                                                                         *)
(* Python and JSON values are tagged records [t |-> type, v |-> text], so  *)
(* that a value's runtime type (str, bool, number, list, dict, None) is    *)
(* part of the value and isinstance / truthiness / hashability are         *)
(* computed as Python computes them.                                       *)
(***************************************************************************)
EXTENDS Integers, Sequences, FiniteSets, TLC

VARIABLES op, pc, raw_json, client, model_idx, components, i,
          verdict, ret, results, usage, calls

vars == <<op, pc, raw_json, client, model_idx, components, i,
          verdict, ret, results, usage, calls>>

\* Bounds of the model.
MaxVios == 2
MaxComps == 2

-----------------------------------------------------------------------------
\* Python / JSON values.

\* A key that the dict does not hold (dict.get falls back to its default).
Absent == [t |-> "absent", v |-> ""]
JNull == [t |-> "null", v |-> ""]
JTrue == [t |-> "bool", v |-> "true"]
JFalse == [t |-> "bool", v |-> "false"]
JStr(s) == [t |-> "str", v |-> s]
JNum(s) == [t |-> "num", v |-> s]
JList(s) == [t |-> "list", v |-> s]
JDict(s) == [t |-> "dict", v |-> s]

PyBool(b) == IF b THEN JTrue ELSE JFalse

\* Python truthiness, as used by `not valid`, `if part` and `if not means`.
Truthy(x) ==
    CASE x.t = "bool" -> x.v = "true"
      [] x.t = "str" -> x.v # ""
      [] x.t = "num" -> x.v # "0"
      [] x.t = "list" -> x.v # "[]"
      [] x.t = "dict" -> x.v # "{}"
      [] OTHER -> FALSE

\* A list or a dict cannot be used as a dictionary key (TypeError).
Hashable(x) == x.t \notin {"list", "dict"}

\* dict.get(key, default) for a key whose stored value is val.
DictGet(val, default) == IF val = Absent THEN default ELSE val

\* Sequences over S of length at most n.
BSeq(S, n) == UNION {[1..k -> S] : k \in 0..n}

-----------------------------------------------------------------------------
\* The shapes an LLM response can take.

RawValids ==
    {Absent, JTrue, JFalse, JStr("true"), JStr("false"), JNull,
     JNum("1"), JNum("0"), JList("[]")}

RawParts ==
    {Absent, JStr("[Means]"), JStr("[Ends]"), JStr("[Role]"), JNull,
     JList("[\"[Means]\"]"), JDict("{\"name\": \"[Ends]\"}")}

RawIssueSuggestion ==
    {<<Absent, Absent>>, <<JStr("flaw"), JStr("fix")>>,
     <<JList("[\"flaw\"]"), JNull>>}

\* An element of the 'violations' list: a dict, or something else.
DictEntry(part, issue, suggestion) ==
    [t |-> "dict", part |-> part, issue |-> issue, suggestion |-> suggestion]

NonDictEntry(type) ==
    [t |-> type, part |-> Absent, issue |-> Absent, suggestion |-> Absent]

RawEntries ==
    {DictEntry(p, is[1], is[2]) : p \in RawParts, is \in RawIssueSuggestion}
        \cup {NonDictEntry("str"), NonDictEntry("num")}

\* The value stored under 'violations': missing, a list, or another type.
VioList(items) == [t |-> "list", items |-> items]
VioOther(type) == [t |-> type, items |-> <<>>]

RawVioValues ==
    {VioOther("absent"), VioOther("null"), VioOther("str"), VioOther("dict")}
        \cup {VioList(s) : s \in BSeq(RawEntries, MaxVios)}

RawDict(valid, violations) ==
    [t |-> "dict", valid |-> valid, violations |-> violations]

RawNonDict(type) ==
    [t |-> type, valid |-> Absent, violations |-> VioOther("absent")]

Raws ==
    {RawDict(v, vs) : v \in RawValids, vs \in RawVioValues}
        \cup {RawNonDict(ty) : ty \in {"list", "str", "num", "null"}}

-----------------------------------------------------------------------------
\* Violation and CSVerdictData.

\* `{part}` is a set literal, `{}` is the empty dict literal.
SetLit(x) == [t |-> "set", elems |-> {x}]
EmptyDictLit == [t |-> "dict", elems |-> {}]

Violation(parts, issue, suggestion) ==
    [parts |-> parts, issue |-> issue, suggestion |-> suggestion]

CSVerdictData(valid, violations) ==
    [status |-> "ok", valid |-> valid, violations |-> violations]

\* The parser did not return: an exception left it.
Raised(exc) == [status |-> exc, valid |-> Absent, violations |-> <<>>]

PART_MAP == [k \in {"[Means]", "[Ends]"} |->
                IF k = "[Means]" THEN "means" ELSE "ends"]

\* _PART_MAP.get(key) for a hashable key: the mapped word, or None.
PartMapGet(key) ==
    IF key.t = "str" /\ key.v \in DOMAIN PART_MAP
    THEN JStr(PART_MAP[key.v]) ELSE JNull

default_vio == Violation(EmptyDictLit, JStr("Unknown"), JStr("Unknown"))

\* Mutant of EntryViolation: the issue is read without its default.
EntryViolationNoDefault(t) ==
    LET part == PartMapGet(DictGet(t.part, JStr("")))
    IN Violation(IF Truthy(part) THEN SetLit(part.v) ELSE EmptyDictLit,
                 DictGet(t.issue, JNull),
                 DictGet(t.suggestion, JNull))

\* Body of the loop: the Violation built from one dict entry.
EntryViolation(t) ==
    LET part == PartMapGet(DictGet(t.part, JStr("")))
    IN Violation(IF Truthy(part) THEN SetLit(part.v) ELSE EmptyDictLit,
                 DictGet(t.issue, JStr("")),
                 DictGet(t.suggestion, JNull))

\* `for t in tmp`, appending to acc: the list built, or the exception that
\* ended the loop.
RECURSIVE ParseEntries(_, _)
ParseEntries(tmp, acc) ==
    IF tmp = <<>> THEN [status |-> "ok", violations |-> acc]
    ELSE LET t == Head(tmp) IN
         IF t.t # "dict" THEN ParseEntries(Tail(tmp), acc)
         ELSE IF ~Hashable(DictGet(t.part, JStr("")))
              THEN [status |-> "TypeError", violations |-> acc]
              ELSE ParseEntries(Tail(tmp), Append(acc, EntryViolation(t)))

\* `valid` after the str / None coercions.
CoerceValid(valid) ==
    IF valid.t = "str" THEN PyBool(valid.v = "true")
    ELSE IF valid.t = "null" THEN JFalse
    ELSE valid

\* CSVerdictParserModel.__parser
Parser(raw) ==
    IF raw.t # "dict" THEN CSVerdictData(JFalse, <<>>)
    ELSE LET valid == CoerceValid(DictGet(raw.valid, JFalse))
             tmp == IF raw.violations.t = "absent" THEN VioList(<<>>)
                    ELSE raw.violations
             loop == IF tmp.t = "list" THEN ParseEntries(tmp.items, <<>>)
                     ELSE [status |-> "ok", violations |-> <<>>]
         IN IF loop.status # "ok" THEN Raised(loop.status)
            ELSE IF ~Truthy(valid) /\ Len(loop.violations) = 0
                 THEN CSVerdictData(valid, Append(loop.violations, default_vio))
                 ELSE CSVerdictData(valid, loop.violations)

-----------------------------------------------------------------------------
\* Python objects passed as arguments.  Every object carries its type, so
\* that an attribute read on an object of the wrong type raises.

PyObj(type, means, ends, v) ==
    [t |-> type, means |-> means, ends |-> ends, v |-> v]

QUSComponent(means, ends) == PyObj("QUSComponent", means, ends, "")
PyInt(n) == PyObj("int", Absent, Absent, n)
LLMClient(name) == PyObj("LLMClient", Absent, Absent, name)
NoObj == PyObj("None", Absent, Absent, "")

\* `component.means` exists only on a QUSComponent.
HasMeans(obj) == obj.t = "QUSComponent"

NoValues == [means |-> Absent, ends |-> Absent]
NoRaw == [t |-> "none", valid |-> Absent, violations |-> VioOther("absent")]
NoVerdict == [status |-> "none", valid |-> Absent, violations |-> <<>>]

\* The LLMResult of one call of the analyzer, and Python's None in its place.
LLMResult(client_, model_idx_, values, raw) ==
    [t |-> "LLMResult", client |-> client_, model_idx |-> model_idx_,
     values |-> values, raw |-> raw]

PyNone ==
    [t |-> "None", client |-> NoObj, model_idx |-> NoObj,
     values |-> NoValues, raw |-> NoRaw]

\* The outcome of a method: how it ended, what it returned, and the calls
\* of the LLM analyzer it made, in order.
Outcome(status, violations, result, made) ==
    [status |-> status, violations |-> violations, result |-> result,
     calls |-> made]

\* LLMAnalyzer.run(client, model_idx, values) when the LLM replies `reply`:
\* the reply goes through the parser registered by build_parser, and the
\* parsed data comes back with the LLM result of the call.
AnalyzerRun(client_, model_idx_, values, reply) ==
    LET data == Parser(reply)
        result == LLMResult(client_, model_idx_, values, reply)
    IN [status |-> data.status, data |-> data, result |-> result,
        client |-> client_, model_idx |-> model_idx_, values |-> values]

\* The replies of the LLM to the calls made through the analyzer.
LLMReplies ==
    { RawDict(JTrue, VioOther("absent")),
      RawDict(JFalse, VioList(<<DictEntry(JStr("[Means]"), JStr("flaw"),
                                          JStr("fix"))>>)),
      RawDict(JFalse, VioOther("absent")),
      RawDict(JStr("true"), VioList(<<DictEntry(JStr("[Ends]"), Absent,
                                                Absent)>>)),
      RawDict(JFalse, VioList(<<DictEntry(JList("[\"[Means]\"]"),
                                          JStr("flaw"), JStr("fix"))>>)),
      RawNonDict("list") }

\* Mutant of AnalyzeSingle: an empty means is skipped like a missing one.
AnalyzeSingleFalsy(client_, model_idx_, component, reply) ==
    IF ~HasMeans(component)
    THEN Outcome("AttributeError", <<>>, PyNone, <<>>)
    ELSE IF ~Truthy(component.means)
    THEN Outcome("ok", <<>>, PyNone, <<>>)
    ELSE LET values == [means |-> component.means, ends |-> component.ends]
             r == AnalyzerRun(client_, model_idx_, values, reply)
         IN IF r.status # "ok"
            THEN Outcome(r.status, <<>>, PyNone, <<r>>)
            ELSE Outcome("ok", r.data.violations, r.result, <<r>>)

\* CSVerdictParserModel.analyze_single
AnalyzeSingle(client_, model_idx_, component, reply) ==
    IF ~HasMeans(component)
    THEN Outcome("AttributeError", <<>>, PyNone, <<>>)
    ELSE IF component.means.t = "null"
    THEN Outcome("ok", <<>>, PyNone, <<>>)
    ELSE LET values == [means |-> component.means, ends |-> component.ends]
             r == AnalyzerRun(client_, model_idx_, values, reply)
         IN IF r.status # "ok"
            THEN Outcome(r.status, <<>>, PyNone, <<r>>)
            ELSE Outcome("ok", r.data.violations, r.result, <<r>>)

\* Mutant of AnalyzeListAcc: components without an LLM result are left out.
AnalyzeListAccSkipNone(acc, r) ==
    IF r.result.t = "None" THEN acc
    ELSE Append(acc, [violations |-> r.violations, result |-> r.result])

\* One element of the list comprehension of analyze_list.
AnalyzeListAcc(acc, r) ==
    Append(acc, [violations |-> r.violations, result |-> r.result])

\* ConceptuallySoundAnalyzer.__not_violated
NotViolated(client_, model_idx_, component, reply) ==
    LET means == component.means
    IN IF ~Truthy(means)
       THEN Outcome("ok", <<>>, PyNone, <<>>)
       ELSE AnalyzeSingle(client_, component, model_idx_, reply)

\* utils.analyze_individual_with_llm, given the outcome of every checker in
\* checker order: the violations of all checkers, and one usage entry per
\* checker in checker order; an exception of a checker leaves it.
RECURSIVE AnalyzeIndividualWithLLM(_, _)
AnalyzeIndividualWithLLM(checks, acc) ==
    IF checks = <<>> THEN acc
    ELSE LET c == Head(checks) IN
         IF c.status # "ok"
         THEN [status |-> c.status, violations |-> <<>>, usages |-> <<>>,
               calls |-> acc.calls \o c.calls]
         ELSE AnalyzeIndividualWithLLM(Tail(checks),
                  [status |-> "ok",
                   violations |-> acc.violations \o c.violations,
                   usages |-> Append(acc.usages, c.result),
                   calls |-> acc.calls \o c.calls])

\* CSVerdictParserModel.key
key == "conceptually-sound"

\* Mutant of UsageDict: the None entries are kept.
UsageDictUnfiltered(task_keys, usages) ==
    LET n == IF Len(task_keys) < Len(usages) THEN Len(task_keys)
             ELSE Len(usages)
        last(name) == CHOOSE k \in 1..n :
                         /\ task_keys[k] = name
                         /\ \A j \in 1..n : task_keys[j] = name => j <= k
    IN [name \in {task_keys[k] : k \in 1..n} |-> usages[last(name)]]

\* {k: r for k, r in zip(task_keys, usages) if r is not None}
UsageDict(task_keys, usages) ==
    LET n == IF Len(task_keys) < Len(usages) THEN Len(task_keys)
             ELSE Len(usages)
        kept == {k \in 1..n : usages[k].t # "None"}
        last(name) == CHOOSE k \in kept :
                         /\ task_keys[k] = name
                         /\ \A j \in kept : task_keys[j] = name => j <= k
    IN [name \in {task_keys[k] : k \in kept} |-> usages[last(name)]]

EmptyUsage == [name \in {} |-> PyNone]

\* ConceptuallySoundAnalyzer.run
Run(client_, model_idx_, component, reply) ==
    LET check == NotViolated(client_, model_idx_, component, reply)
        task_keys == <<key>>
        agg == AnalyzeIndividualWithLLM(<<check>>,
                   [status |-> "ok", violations |-> <<>>, usages |-> <<>>,
                    calls |-> <<>>])
    IN [status |-> agg.status,
        violations |-> agg.violations,
        result |-> check.result,
        usage |-> IF agg.status = "ok" THEN UsageDict(task_keys, agg.usages)
                  ELSE EmptyUsage,
        calls |-> agg.calls]

-----------------------------------------------------------------------------
\* The state machine: Init draws the operation that is called and its
\* arguments; the actions carry the operation out.

Clients == {LLMClient("c1"), LLMClient("c2")}
ModelIdxs == {PyInt("0"), PyInt("1")}
Means == {JNull, JStr(""), JStr("log in")}
Ends == {JNull, JStr("see my data")}
Components == {QUSComponent(m, e) : m \in Means, e \in Ends}

NoRet == [violations |-> <<>>, result |-> PyNone]

Init ==
    /\ pc = "call"
    /\ i = 1
    /\ verdict = NoVerdict
    /\ ret = NoRet
    /\ results = <<>>
    /\ usage = EmptyUsage
    /\ calls = <<>>
    /\ \/ /\ op = "__parser"
          /\ raw_json \in Raws
          /\ client = NoObj
          /\ model_idx = NoObj
          /\ components = <<>>
       \/ /\ op \in {"analyze_single", "__not_violated", "run"}
          /\ raw_json = NoRaw
          /\ client \in Clients
          /\ model_idx \in ModelIdxs
          /\ components \in [1..1 -> Components]
       \/ /\ op = "analyze_list"
          /\ raw_json = NoRaw
          /\ client \in Clients
          /\ model_idx \in ModelIdxs
          /\ components \in BSeq(Components, MaxComps)

Ended(status) == IF status = "ok" THEN "returned" ELSE "raised"

\* __parser(raw_json)
ParserCall ==
    /\ op = "__parser" /\ pc = "call"
    /\ verdict' = Parser(raw_json)
    /\ pc' = Ended(verdict'.status)
    /\ UNCHANGED <<op, raw_json, client, model_idx, components, i, ret,
                   results, usage, calls>>

\* analyze_single(client, model_idx, component)
AnalyzeSingleCall ==
    /\ op = "analyze_single" /\ pc = "call"
    /\ \E reply \in LLMReplies :
          LET r == AnalyzeSingle(client, model_idx, components[1], reply)
          IN /\ pc' = Ended(r.status)
             /\ ret' = [violations |-> r.violations, result |-> r.result]
             /\ calls' = r.calls
    /\ UNCHANGED <<op, raw_json, client, model_idx, components, i, verdict,
                   results, usage>>

\* analyze_list: the next component of the comprehension.
AnalyzeListStep ==
    /\ op = "analyze_list" /\ pc = "call"
    /\ i <= Len(components)
    /\ \E reply \in LLMReplies :
          LET r == AnalyzeSingle(client, model_idx, components[i], reply)
          IN /\ calls' = calls \o r.calls
             /\ IF r.status = "ok"
                THEN /\ results' = AnalyzeListAcc(results, r)
                     /\ i' = i + 1
                     /\ pc' = pc
                ELSE /\ pc' = "raised"
                     /\ UNCHANGED <<results, i>>
    /\ UNCHANGED <<op, raw_json, client, model_idx, components, verdict,
                   ret, usage>>

\* analyze_list: the comprehension is exhausted, the list is returned.
AnalyzeListReturn ==
    /\ op = "analyze_list" /\ pc = "call"
    /\ i > Len(components)
    /\ pc' = "returned"
    /\ UNCHANGED <<op, raw_json, client, model_idx, components, i, verdict,
                   ret, results, usage, calls>>

\* __not_violated(client, model_idx, component)
NotViolatedCall ==
    /\ op = "__not_violated" /\ pc = "call"
    /\ \E reply \in LLMReplies :
          LET r == NotViolated(client, model_idx, components[1], reply)
          IN /\ pc' = Ended(r.status)
             /\ ret' = [violations |-> r.violations, result |-> r.result]
             /\ calls' = r.calls
    /\ UNCHANGED <<op, raw_json, client, model_idx, components, i, verdict,
                   results, usage>>

\* run(client, model_idx, component)
RunCall ==
    /\ op = "run" /\ pc = "call"
    /\ \E reply \in LLMReplies :
          LET r == Run(client, model_idx, components[1], reply)
          IN /\ pc' = Ended(r.status)
             /\ ret' = [violations |-> r.violations, result |-> r.result]
             /\ usage' = r.usage
             /\ calls' = r.calls
    /\ UNCHANGED <<op, raw_json, client, model_idx, components, i, verdict,
                   results>>

Next ==
    \/ ParserCall
    \/ AnalyzeSingleCall
    \/ AnalyzeListStep
    \/ AnalyzeListReturn
    \/ NotViolatedCall
    \/ RunCall

Spec == Init /\ [][Next]_vars

-----------------------------------------------------------------------------
\* Properties.

\* The dict entries of the response's 'violations' list, in order; none
\* when the response is not a dict or 'violations' is missing or not a list.
DictEntries(raw) ==
    IF raw.t = "dict" /\ raw.violations.t = "list"
    THEN SelectSeq(raw.violations.items, LAMBDA t : t.t = "dict")
    ELSE <<>>

ParserReturned == op = "__parser" /\ pc = "returned"

\* C1: a verdict with valid = false has a non-empty violations list; when
\* the response supplied no violation it holds exactly the one placeholder.
C1_InvalidHasViolations ==
    (ParserReturned /\ verdict.valid = JFalse) =>
        /\ Len(verdict.violations) > 0
        /\ DictEntries(raw_json) = <<>> => verdict.violations = <<default_vio>>

\* C2: the parser returns a verdict for every response shape and never
\* raises.
C2_ParserNeverRaises ==
    (op = "__parser" /\ pc # "call") =>
        (pc = "returned" /\ verdict.status = "ok")

\* C3: the valid field of a verdict is a boolean, true exactly when the
\* response is a dict whose 'valid' is the boolean true or the string "true".
C3_ValidIsBoolean ==
    ParserReturned =>
        /\ verdict.valid \in {JTrue, JFalse}
        /\ verdict.valid = JTrue <=>
              (raw_json.t = "dict" /\ raw_json.valid \in {JTrue, JStr("true")})

\* The parts the label of a dict entry stands for.
LabelParts(t) ==
    IF t.part = JStr("[Means]") THEN {"means"}
    ELSE IF t.part = JStr("[Ends]") THEN {"ends"}
    ELSE {}

\* C4: the parts of every violation is a set drawn from {"means", "ends"}:
\* {"means"} for "[Means]", {"ends"} for "[Ends]", the empty set for a missing
\* or unrecognized label and for the placeholder.
C4_PartsFromVocabulary ==
    ParserReturned =>
        LET D == DictEntries(raw_json) IN
        /\ \A k \in 1..Len(verdict.violations) :
              /\ verdict.violations[k].parts.t = "set"
              /\ verdict.violations[k].parts.elems \subseteq {"means", "ends"}
        /\ Len(D) > 0 =>
              /\ Len(verdict.violations) = Len(D)
              /\ \A k \in 1..Len(D) :
                    verdict.violations[k].parts.elems = LabelParts(D[k])
        /\ (Len(D) = 0 /\ Len(verdict.violations) > 0) =>
              verdict.violations[1].parts.elems = {}

ValuesOf(component) == [means |-> component.means, ends |-> component.ends]

\* C5: the check on a component with non-empty means analyzes that component
\* with the caller's client and model index, and returns what analyze_single
\* produced, without raising.
C5_CheckAnalyzesCallersComponent ==
    (op = "__not_violated" /\ pc # "call" /\ Truthy(components[1].means)) =>
        /\ pc = "returned"
        /\ Len(calls) = 1
        /\ calls[1].client = client
        /\ calls[1].model_idx = model_idx
        /\ calls[1].values = ValuesOf(components[1])
        /\ ret = [violations |-> calls[1].data.violations,
                  result |-> calls[1].result]

\* C6: analyze_single on a component whose means is None returns ([], None)
\* and calls no analyzer; otherwise it calls the analyzer exactly once with
\* {means, ends} of the component and returns the violations of the parsed
\* verdict together with the result of that call.
C6_AnalyzeSingle ==
    (op = "analyze_single" /\ pc # "call") =>
        IF components[1].means = JNull
        THEN /\ pc = "returned"
             /\ ret = [violations |-> <<>>, result |-> PyNone]
             /\ calls = <<>>
        ELSE /\ Len(calls) = 1
             /\ calls[1].client = client
             /\ calls[1].model_idx = model_idx
             /\ calls[1].values = ValuesOf(components[1])
             /\ calls[1].status = "ok" =>
                   /\ pc = "returned"
                   /\ ret = [violations |-> calls[1].data.violations,
                             result |-> calls[1].result]
             /\ pc = "returned" => calls[1].status = "ok"

C6_Witness ==
    /\ op = "analyze_single" /\ pc = "returned"
    /\ components[1].means = JStr("") /\ components[1].ends = JNull
    /\ Len(calls) = 1
    /\ Len(ret.violations) = 1
    /\ ret.result.t = "LLMResult"

\* The components among the first n whose means is not None, in order.
Called(n) ==
    SelectSeq(SubSeq(components, 1, n), LAMBDA c : c.means # JNull)

\* C7: analyze_list returns one element per component, the k-th being the
\* result of analyze_single on the k-th component; the LLM calls are made one
\* after the other in input order, at most one per component and none for a
\* component whose means is None.
C7_AnalyzeList ==
    op = "analyze_list" =>
        LET reached == IF pc = "raised" THEN i ELSE i - 1
            made == Called(reached)
        IN /\ Len(results) = i - 1
           /\ Len(calls) = Len(made)
           /\ \A k \in 1..Len(calls) :
                 /\ calls[k].client = client
                 /\ calls[k].model_idx = model_idx
                 /\ calls[k].values = ValuesOf(made[k])
           /\ \A k \in 1..Len(results) :
                 IF components[k].means = JNull
                 THEN results[k] = [violations |-> <<>>, result |-> PyNone]
                 ELSE LET c == calls[Len(Called(k))]
                      IN results[k] = [violations |-> c.data.violations,
                                       result |-> c.result]
           /\ pc = "returned" => Len(results) = Len(components)

C7_Witness ==
    /\ op = "analyze_list" /\ pc = "returned"
    /\ Len(components) = 2
    /\ components[1].means = JNull
    /\ components[2].means # JNull
    /\ Len(calls) = 1
    /\ Len(results[2].violations) = 1

\* C8: run on a component whose means is None or "" makes no LLM call and
\* returns no violation and an empty usage dictionary; the usage dictionary
\* has at most the key "conceptually-sound", present exactly when the check
\* returned an LLM result.
C8_RunUsage ==
    (op = "run" /\ pc # "call") =>
        /\ ~Truthy(components[1].means) =>
              /\ pc = "returned"
              /\ ret.violations = <<>>
              /\ DOMAIN usage = {}
              /\ calls = <<>>
        /\ pc = "returned" =>
              /\ DOMAIN usage \subseteq {"conceptually-sound"}
              /\ "conceptually-sound" \in DOMAIN usage <=>
                    ret.result.t # "None"

C8_Witness ==
    /\ op = "run" /\ pc = "returned"
    /\ components[1].means = JStr("")
    /\ DOMAIN usage = {}
    /\ calls = <<>>

\* The issue and suggestion a dict entry stands for.
TakenFrom(v, t) ==
    /\ v.issue = (IF t.issue = Absent THEN JStr("") ELSE t.issue)
    /\ v.suggestion = (IF t.suggestion = Absent THEN JNull ELSE t.suggestion)

\* C9 as stated: for a dict response whose 'violations' is a list, the
\* parsed violations are, one for one and in order, the dict entries of that
\* list, issue defaulting to "" and suggestion to null; when 'violations' is
\* missing or not a list, no violation is taken from the response.
C9_OneToOne ==
    (ParserReturned /\ raw_json.t = "dict") =>
        LET D == DictEntries(raw_json) IN
        IF raw_json.violations.t = "list"
        THEN /\ Len(verdict.violations) = Len(D)
             /\ \A k \in 1..Len(D) : TakenFrom(verdict.violations[k], D[k])
        ELSE verdict.violations \in {<<>>, <<default_vio>>}

\* C9, amended: as stated, except that a list without a dict entry yields the
\* one placeholder violation when valid is falsy.
C9_OneToOneOrPlaceholder ==
    (ParserReturned /\ raw_json.t = "dict") =>
        LET D == DictEntries(raw_json) IN
        IF raw_json.violations.t = "list"
        THEN IF Len(D) = 0 /\ ~Truthy(verdict.valid)
             THEN verdict.violations = <<default_vio>>
             ELSE /\ Len(verdict.violations) = Len(D)
                  /\ \A k \in 1..Len(D) :
                        TakenFrom(verdict.violations[k], D[k])
        ELSE verdict.violations \in {<<>>, <<default_vio>>}

C9_Witness ==
    /\ ParserReturned
    /\ raw_json.violations.t = "list"
    /\ Len(raw_json.violations.items) = 2
    /\ raw_json.violations.items[1].t # "dict"
    /\ Len(DictEntries(raw_json)) = 1
    /\ DictEntries(raw_json)[1].issue = Absent
    /\ verdict.violations[1].issue = JStr("")
    /\ verdict.violations[1].suggestion = JNull

====
